---- MODULE Spec2Model ----
(***************************************************************************)
(* Credential store (Pinia store `auth`) and authenticated request         *)
(* pipeline (axios instance `api` with its request/response interceptors)  *)
(* of the GeoChallenge Tracker frontend.                                   *)
(*                                                                         *)
(* One action of the model is one macrotask of the browser event loop: a   *)
(* user gesture or the arrival of an HTTP response, together with every    *)
(* promise continuation (microtask) it triggers.                           *)
(*                                                                         *)
(* Tokens are natural numbers; 0 stands for the empty string '' (and for   *)
(* an absent storage key, since every read is `getItem(k) || ''`).         *)
(*                                                                         *)
(* The second half models the two map search pages (bounding box and       *)
(* radius): the crosshair picker of MapBase, the pick session of each page *)
(* and its paginated, de-duplicating search.  The pages have their own     *)
(* specification, SpecGeo; there a fetch of a page is the promise of       *)
(* api.get, which either fulfils with the payload or rejects.  SpecPaging  *)
(* restricts the pages to successive successful searches of one region     *)
(* against a backend that echoes the requested page.                       *)
(***************************************************************************)
EXTENDS Integers, Sequences, FiniteSets, TLC

\* ---- bounds of the model ------------------------------------------------
MaxLogin == 1      \* login() calls made by the user
MaxPage == 1       \* protected calls issued by pages
MaxIssue == 3      \* highest token number the backend issues

\* request slots: one per call the bounded operations can make, in the order
\* login POST, profile and location of login(), profile and location of
\* init(), the page calls; the refresh started by the call in slot r uses
\* slot NumCalls + r
LoginSlot == 1
LoginProfileSlot == 2
LoginLocationSlot == 3
InitProfileSlot == 4
InitLocationSlot == 5
PageSlot(i) == 5 + i
NumCalls == 5 + MaxPage
RefreshSlot(r) == NumCalls + r
Slots == 1..(2 * NumCalls)

\* ---- endpoints ------------------------------------------------------------
LOGIN == "/auth/login"
REFRESH == "/auth/refresh"
PROFILE == "/my/profile"
LOCATION == "/my/profile/location"
PROTECTED == "/my/challenges"

\* HTTP outcomes: 200, 401, and 500 for every other failure (another error
\* status, or no response at all: both fail the test `resp?.status === 401`)
Statuses == {200, 401, 500}

VARIABLES
    auth,            \* Pinia state: accessToken, refreshToken, user, initialized
    sessionStorage,  \* browser sessionStorage (keys access_token, refresh_token)
    localStorage,    \* browser localStorage   (keys access_token, refresh_token)
    refreshPromise,  \* module variable of api/http.ts: 0 = null, else the slot of the refresh call
    requests,        \* axios request configs in flight or awaiting the refresh
    pcLogin,         \* position of the running login(): idle, post, profile, location
    calls,           \* how many times login() ran and pages issued a call
    issued,          \* last token number issued by the backend
    refreshCalls,    \* POST /auth/refresh calls sent so far
    ev,              \* what the last macrotask did
    withinBbox,      \* component state of the bounding-box search page
    withinRadius     \* component state of the radius search page

vars == <<auth, sessionStorage, localStorage, refreshPromise, requests,
          pcLogin, calls, issued, refreshCalls, ev, withinBbox, withinRadius>>

\* ---- values ---------------------------------------------------------------
NullUser == [isNull |-> TRUE, base |-> FALSE, location |-> FALSE]

FreeSlot == [state |-> "free", url |-> "", op |-> "", _retry |-> FALSE,
             Authorization |-> 0, awaits |-> 0, sends |-> 0]

NoError == [status |-> 200, url |-> ""]

\* record of one macrotask: which operation or response it was (slot 0 = no
\* response), how often logout() and refresh() ran in it, which calls were
\* put on the wire, and which calls settled towards their callers
NewEv(kind, slot, url, status) ==
    [kind |-> kind, slot |-> slot, url |-> url, status |-> status,
     logouts |-> 0, refreshStarted |-> 0, sent |-> {}, settled |-> {}]

\* the mutable world an operation works on
World == [auth |-> auth, sessionStorage |-> sessionStorage,
          localStorage |-> localStorage, refreshPromise |-> refreshPromise,
          requests |-> requests, pcLogin |-> pcLogin,
          refreshCalls |-> refreshCalls, ev |-> ev]

Commit(m) ==
    /\ auth' = m.auth
    /\ sessionStorage' = m.sessionStorage
    /\ localStorage' = m.localStorage
    /\ refreshPromise' = m.refreshPromise
    /\ requests' = m.requests
    /\ pcLogin' = m.pcLogin
    /\ refreshCalls' = m.refreshCalls
    /\ ev' = m.ev
    /\ UNCHANGED <<withinBbox, withinRadius>>

Begin(kind, slot, url, status) ==
    [World EXCEPT !.ev = NewEv(kind, slot, url, status)]

\* ---- store/auth.ts --------------------------------------------------------
setTokens_storageOnly(m, tokens) ==
    LET m1 == [m EXCEPT !.sessionStorage.access_token = tokens.access_token]
    IN  IF tokens.refresh_token # 0
        THEN [m1 EXCEPT !.auth.refreshToken = tokens.refresh_token,
                        !.localStorage.refresh_token = tokens.refresh_token]
        ELSE m1

setTokens_swapsStorage(m, tokens) ==
    LET a1 == [m.auth EXCEPT !.accessToken = tokens.access_token]
        m1 == [m EXCEPT !.auth = a1,
                        !.localStorage.access_token = a1.accessToken]
    IN  IF tokens.refresh_token # 0
        THEN [m1 EXCEPT !.auth.refreshToken = tokens.refresh_token,
                        !.sessionStorage.refresh_token = tokens.refresh_token]
        ELSE m1

setTokens(m, tokens) ==
    LET a1 == [m.auth EXCEPT !.accessToken = tokens.access_token]
        m1 == [m EXCEPT !.auth = a1,
                        !.sessionStorage.access_token = a1.accessToken]
    IN  IF tokens.refresh_token # 0
        THEN [m1 EXCEPT !.auth.refreshToken = tokens.refresh_token,
                        !.localStorage.refresh_token = tokens.refresh_token]
        ELSE m1

logout_keepsSession(m) ==
    [m EXCEPT !.auth.accessToken = 0,
              !.auth.refreshToken = 0,
              !.auth.user = NullUser,
              !.localStorage.refresh_token = 0,
              !.ev.logouts = @ + 1]

logout(m) ==
    [m EXCEPT !.auth.accessToken = 0,
              !.auth.refreshToken = 0,
              !.auth.user = NullUser,
              !.sessionStorage.access_token = 0,
              !.localStorage.refresh_token = 0,
              !.ev.logouts = @ + 1]

\* this.user = { ...(this.user ?? {}), ...base } / { ..., location: data }
mergeUser(m, url) ==
    IF url = PROFILE
    THEN [m EXCEPT !.auth.user.isNull = FALSE, !.auth.user.base = TRUE]
    ELSE IF url = LOCATION
    THEN [m EXCEPT !.auth.user.isNull = FALSE, !.auth.user.location = TRUE]
    ELSE m

\* ---- api/http.ts ----------------------------------------------------------
isRefreshUrl_never(url) == FALSE

\* original.url?.includes('/auth/refresh')
isRefreshUrl(url) == url = REFRESH

\* request interceptor, applied to the config held in slot r
requestInterceptor(m, r) ==
    LET cached == m.sessionStorage.access_token
        m1 == IF m.auth.accessToken = 0 /\ cached # 0
              THEN [m EXCEPT !.auth.accessToken = cached]
              ELSE m
    IN  IF m1.auth.accessToken # 0
        THEN [m1 EXCEPT !.requests[r].Authorization = m1.auth.accessToken]
        ELSE m1

\* api(config): run the request interceptor and put the call on the wire
api(m, r) ==
    LET m1 == requestInterceptor(m, r)
    IN  [m1 EXCEPT !.requests[r].state = "inflight",
                   !.requests[r].awaits = 0,
                   !.requests[r].sends = @ + 1,
                   !.ev.sent = @ \cup {r}]

\* api.get / api.post with a fresh config, kept in slot r
newRequest(m, r, url, op) ==
    api([m EXCEPT !.requests[r] =
            [FreeSlot EXCEPT !.state = "config", !.url = url, !.op = op]], r)


\* ---- continuations of the callers (store/auth.ts) --------------------------
continuation_failsFast(m, q, ok, data) ==
    CASE q.op = "login" /\ q.url = LOGIN ->
            IF ok
            THEN [newRequest(setTokens(m, data), LoginProfileSlot, PROFILE, "login")
                     EXCEPT !.pcLogin = "profile"]
            ELSE [m EXCEPT !.pcLogin = "idle"]
      [] q.op = "login" /\ q.url = PROFILE ->
            IF ok
            THEN [newRequest(mergeUser(m, PROFILE),
                             LoginLocationSlot, LOCATION, "login")
                     EXCEPT !.pcLogin = "location"]
            ELSE [m EXCEPT !.pcLogin = "idle"]
      [] q.op = "login" /\ q.url = LOCATION ->
            [(IF ok THEN mergeUser(m, LOCATION) ELSE m) EXCEPT !.pcLogin = "idle"]
      [] OTHER ->
            IF ok THEN mergeUser(m, q.url) ELSE m

\* what the awaiting caller does once request q has settled
continuation(m, q, ok, data) ==
    CASE q.op = "login" /\ q.url = LOGIN ->
            \* login(): setTokens(data), then fetchProfileBase(); a rejection
            \* of the POST rejects login()
            IF ok
            THEN [newRequest(setTokens(m, data), LoginProfileSlot, PROFILE, "login")
                     EXCEPT !.pcLogin = "profile"]
            ELSE [m EXCEPT !.pcLogin = "idle"]
      [] q.op = "login" /\ q.url = PROFILE ->
            \* try { await fetchProfileBase() } catch {}; then fetchLocation()
            [newRequest(IF ok THEN mergeUser(m, PROFILE) ELSE m,
                        LoginLocationSlot, LOCATION, "login")
                EXCEPT !.pcLogin = "location"]
      [] q.op = "login" /\ q.url = LOCATION ->
            [(IF ok THEN mergeUser(m, LOCATION) ELSE m) EXCEPT !.pcLogin = "idle"]
      [] OTHER ->
            \* init(): Promise.allSettled([...]); pages: result handed to the page
            IF ok THEN mergeUser(m, q.url) ELSE m

\* the promise returned by api(...) for the call in slot r settles
settleCaller(m, r, ok, data, err) ==
    LET q == m.requests[r]
        m1 == [m EXCEPT !.ev.settled = @ \cup
                  {[slot |-> r, url |-> q.url, sends |-> q.sends,
                    ok |-> ok, err |-> err]}]
        m2 == continuation(m1, q, ok, data)
    IN  [m2 EXCEPT !.requests[r] = FreeSlot]

\* try { await refreshPromise; setAuthHeader(...); return api(original) }
replay(m, w) ==
    LET m1 == IF m.auth.accessToken # 0
              THEN [m EXCEPT !.requests[w].Authorization = m.auth.accessToken]
              ELSE m
    IN  api(m1, w)

\* catch (e) { useAuthStore().logout(); return Promise.reject(e) }
refreshFailed(m, w, e) == settleCaller(logout(m), w, FALSE, 0, e)

Min(S) == CHOOSE x \in S : \A y \in S : x <= y

RECURSIVE resumeAll(_, _, _, _)
resumeAll(m, ws, ok, e) ==
    IF ws = {} THEN m
    ELSE LET w == Min(ws)
         IN  resumeAll(IF ok THEN replay(m, w) ELSE refreshFailed(m, w, e),
                       ws \ {w}, ok, e)

waitersOf(m, r) ==
    {w \in Slots : m.requests[w].state = "awaiting" /\ m.requests[w].awaits = r}

\* the refresh call in slot r settles: refresh() finishes, .finally() clears
\* refreshPromise, then every request awaiting that promise resumes
settleRefresh(m, r, ok, data, err) ==
    LET m1 == IF ok THEN setTokens(m, data) ELSE m
        m2 == [m1 EXCEPT !.refreshPromise = 0,
                         !.requests[r] = FreeSlot,
                         !.ev.settled = @ \cup
                            {[slot |-> r, url |-> m.requests[r].url,
                              sends |-> m.requests[r].sends,
                              ok |-> ok, err |-> err]}]
    IN  resumeAll(m2, waitersOf(m, r), ok, err)

deliver(m, r, ok, data, err) ==
    IF m.requests[r].op = "refresh"
    THEN settleRefresh(m, r, ok, data, err)
    ELSE settleCaller(m, r, ok, data, err)

\* refresh(): if (!this.refreshToken) throw new Error('no refresh')
refreshThrows(m) == m.auth.refreshToken = 0

NoRefreshError == [status |-> 0, url |-> "no refresh"]

\* refresh(): POST /auth/refresh with the held refresh token; p is its slot
refresh(m, p) ==
    [newRequest(m, p, REFRESH, "refresh")
        EXCEPT !.refreshCalls = @ + 1, !.ev.refreshStarted = @ + 1]

startsRefresh_always(m) == TRUE

\* if (!refreshPromise)
startsRefresh(m) == m.refreshPromise = 0

recoverable_ignoresRetry(q, error) == error.status = 401

recoverable_anyStatus(q, error) == ~q._retry

\* if (resp?.status === 401 && original && !original._retry)
recoverable(q, error) == error.status = 401 /\ ~q._retry

\* response interceptor, fulfilled side: (res) => res
onFulfilled(m, r, data) == deliver(m, r, TRUE, data, NoError)

noRefreshToken_never(m) == FALSE

\* if (!auth.refreshToken)
noRefreshToken(m) == m.auth.refreshToken = 0

\* response interceptor, rejected side
onRejected(m, r, error) ==
    LET q == m.requests[r]
    IN  IF recoverable(q, error)
        THEN IF isRefreshUrl(q.url)
             THEN deliver(logout(m), r, FALSE, 0, error)
             ELSE IF noRefreshToken(m)
             THEN deliver(logout(m), r, FALSE, 0, error)
             ELSE LET m1 == [m EXCEPT !.requests[r]._retry = TRUE]
                  IN  IF startsRefresh(m1) /\ refreshThrows(m1)
                      THEN \* the promise of refresh() is born rejected:
                           \* .finally() clears refreshPromise, the await throws
                           refreshFailed([m1 EXCEPT !.refreshPromise = 0], r,
                                         NoRefreshError)
                      ELSE LET m2 == IF startsRefresh(m1)
                                     THEN [refresh(m1, RefreshSlot(r))
                                              EXCEPT !.refreshPromise = RefreshSlot(r)]
                                     ELSE m1
                           IN  [m2 EXCEPT !.requests[r].state = "awaiting",
                                          !.requests[r].awaits = m2.refreshPromise]
        ELSE deliver(m, r, FALSE, 0, error)

\* a search page that is not mounted
Unmounted == [mounted |-> FALSE]

\* ---- initial state: store construction on page load -----------------------
\* the token (access or refresh) an earlier session may have left in storage
StoredToken == 1

Init ==
    /\ \E a \in {0, StoredToken}, rt \in {0, StoredToken} :
          /\ sessionStorage = [access_token |-> a, refresh_token |-> 0]
          /\ localStorage = [access_token |-> 0, refresh_token |-> rt]
          /\ auth = [accessToken |-> 0, refreshToken |-> rt,
                     user |-> NullUser, initialized |-> FALSE]
    /\ refreshPromise = 0
    /\ requests = [r \in Slots |-> FreeSlot]
    /\ pcLogin = "idle"
    /\ calls = [login |-> 0, page |-> 0]
    /\ issued = StoredToken
    /\ refreshCalls = 0
    /\ ev = NewEv("start", 0, "", 0)
    /\ withinBbox = Unmounted
    /\ withinRadius = Unmounted

\* ---- actions ----------------------------------------------------------------
\* Login.vue submit -> auth.login(); the router guard opens the login page
\* only after init() and only to an unauthenticated user
Login ==
    /\ auth.initialized
    /\ auth.accessToken = 0
    /\ pcLogin = "idle"
    /\ calls.login < MaxLogin
    /\ calls' = [calls EXCEPT !.login = @ + 1]
    /\ Commit([newRequest(Begin("login", 0, "", 0), LoginSlot, LOGIN, "login")
                  EXCEPT !.pcLogin = "post"])
    /\ UNCHANGED issued

alreadyInitialized_never(m) == FALSE

\* init(): if (this.initialized) return
alreadyInitialized(m) == m.auth.initialized

\* router.beforeEach / App setup -> auth.init()
InitCall ==
    /\ UNCHANGED calls
    /\ LET m0 == Begin("init", 0, "", 0)
       IN  IF alreadyInitialized(m0)
           THEN Commit(m0)
           ELSE LET m1 == [m0 EXCEPT !.auth.initialized = TRUE,
                                     !.auth.accessToken = sessionStorage.access_token]
                IN  IF m1.auth.accessToken = 0
                    THEN Commit(m1)
                    ELSE Commit(newRequest(
                                    newRequest(m1, InitProfileSlot, PROFILE, "init"),
                                    InitLocationSlot, LOCATION, "init"))
    /\ UNCHANGED issued

\* a page issues a protected call through api; pages mount after init()
PageCall ==
    /\ auth.initialized
    /\ calls.page < MaxPage
    /\ calls' = [calls EXCEPT !.page = @ + 1]
    /\ Commit(newRequest(Begin("page", 0, "", 0), PageSlot(calls.page + 1),
                         PROTECTED, "page"))
    /\ UNCHANGED issued

\* menu doLogout -> auth.logout(); the menu mounts after init()
Logout ==
    /\ auth.initialized
    /\ UNCHANGED calls
    /\ Commit(logout(Begin("logout", 0, "", 0)))
    /\ UNCHANGED issued

\* the backend answers the call in slot r with a token pair
RespondTokens(r) ==
    /\ requests[r].state = "inflight"
    /\ requests[r].url \in {LOGIN, REFRESH}
    /\ issued < MaxIssue
    /\ issued' = issued + 1
    /\ \E rotate \in BOOLEAN :
          Commit(onFulfilled(Begin("response", r, requests[r].url, 200), r,
                    [access_token |-> issued + 1,
                     refresh_token |-> IF rotate THEN issued + 1 ELSE 0]))
    /\ UNCHANGED calls

\* the backend answers a protected call in slot r with its payload
RespondData(r) ==
    /\ requests[r].state = "inflight"
    /\ requests[r].url \notin {LOGIN, REFRESH}
    /\ Commit(onFulfilled(Begin("response", r, requests[r].url, 200), r, 0))
    /\ UNCHANGED <<calls, issued>>

\* the call in slot r fails with the given status
Fail(r, status) ==
    /\ requests[r].state = "inflight"
    /\ Commit(onRejected(Begin("response", r, requests[r].url, status), r,
                  [status |-> status, url |-> requests[r].url]))
    /\ UNCHANGED <<calls, issued>>

\* the call in slot r fails: 401, or any other failure
RespondError(r) == \E status \in Statuses \ {200} : Fail(r, status)

Next ==
    \/ Login
    \/ InitCall
    \/ PageCall
    \/ Logout
    \/ \E r \in Slots : RespondTokens(r)
    \/ \E r \in Slots : RespondData(r)
    \/ \E r \in Slots : RespondError(r)

Spec == Init /\ [][Next]_vars

\* ---- scenario: page load with an expired access token ------------------------
\* session storage holds an access token that the backend no longer accepts;
\* local storage holds a refresh token the backend accepts
InitPageLoad ==
    /\ Init
    /\ sessionStorage.access_token = StoredToken
    /\ localStorage.refresh_token = StoredToken

ServerRejectsExpired(r) ==
    /\ requests[r].url \notin {LOGIN, REFRESH}
    /\ requests[r].Authorization = StoredToken
    /\ Fail(r, 401)

ServerAccepts(r) ==
    /\ requests[r].Authorization > StoredToken
    /\ RespondData(r)

ServerRefreshes(r) ==
    /\ requests[r].url = REFRESH
    /\ RespondTokens(r)

NextPageLoad ==
    \/ InitCall
    \/ PageCall
    \/ \E r \in Slots : ServerRejectsExpired(r)
    \/ \E r \in Slots : ServerAccepts(r)
    \/ \E r \in Slots : ServerRefreshes(r)

SpecPageLoad == InitPageLoad /\ [][NextPageLoad]_vars

TypeOK ==
    /\ auth.accessToken \in 0..MaxIssue
    /\ auth.refreshToken \in 0..MaxIssue
    /\ refreshPromise \in {0} \cup Slots
    /\ pcLogin \in {"idle", "post", "profile", "location"}


\* ==== map search pages ========================================================
\* ---- bounds of the search pages ---------------------------------------------
MaxItems == 2        \* longest item list of one response
MaxNbPages == 2      \* highest page count the backend reports for a region
MaxListeners == 2    \* mousemove preview handlers registered on the map

\* coordinates are hundredths of a degree: 4310 is 43.10
Lats == {4310, 4320}
Lngs == {580, 594}
Radii == {0, 10, 20}     \* radiusKm; 0 stands for every falsy input value
Ids == {"a", "b", "c"}   \* item identifiers (_id)
NoId == ""               \* an item without _id

\* ---- values -----------------------------------------------------------------
NullPt == [isNull |-> TRUE, lat |-> 0, lng |-> 0]
Pt(lat, lng) == [isNull |-> FALSE, lat |-> lat, lng |-> lng]
Points == {Pt(lat, lng) : lat \in Lats, lng \in Lngs}

NoFetch == [page |-> 0]

\* count.value: -1 is null
NoCount == 0 - 1

\* cluster (L.markerClusterGroup): how many markers it holds for each item
NoMarkers == [i \in Ids |-> 0]

\* const picker = installCrosshairPicker(...): let active = false
PickerInstalled == [active |-> FALSE]

\* the bounding-box page once MapBase has emitted `ready`
BboxMounted ==
    [mounted |-> TRUE, picker |-> PickerInstalled,
     listeners |-> 0, moveHandler |-> FALSE, rect |-> <<>>,
     cornerA |-> NullPt, cornerB |-> NullPt, picking |-> "idle", bbox |-> <<>>,
     loading |-> FALSE, count |-> NoCount,
     currentPage |-> 1, nbPages |-> 1, seenIds |-> {}, cluster |-> NoMarkers,
     fetch |-> NoFetch]

\* the radius page once MapBase has emitted `ready`
RadiusMounted ==
    [mounted |-> TRUE, picker |-> PickerInstalled,
     circle |-> <<>>, center |-> NullPt, radiusKm |-> 10, picking |-> FALSE,
     loading |-> FALSE, count |-> NoCount,
     currentPage |-> 1, nbPages |-> 1, seenIds |-> {}, cluster |-> NoMarkers,
     fetch |-> NoFetch]

\* record of one macrotask of a search page: the gesture or response, the
\* map position it carried, whether MapBase emitted `pick`, whether a fetch
\* was issued, the identifiers the response returned and those forwarded to
\* the marker layer, in order, the total the response reported and the length
\* of its item list (NoCount when it carried none)
GeoEv(kind, p) ==
    [kind |-> kind, p |-> p, picked |-> FALSE, sent |-> FALSE,
     ids |-> {}, fresh |-> <<>>, total |-> NoCount, listLen |-> NoCount]

\* ---- components/map/crosshairPicker.ts, MapBase.vue ---------------------------
\* enable(): if (active) return; active = true; map.once("click", handlePick)
enable(g) ==
    IF g.pg.picker.active THEN g ELSE [g EXCEPT !.pg.picker.active = TRUE]

\* disable(): if (!active) return; active = false; map.off("click", handlePick)
disable(g) ==
    IF ~g.pg.picker.active THEN g ELSE [g EXCEPT !.pg.picker.active = FALSE]

\* MapBase.enablePick(): picker?.enable()
enablePick(g) == enable(g)

\* ---- accumulator, common to both pages ----------------------------------------
\* currentPage.value = 1; nbPages.value = 1; seenIds.value.clear();
\* cluster?.clearLayers()
resetAccumulator(g) ==
    [g EXCEPT !.pg.currentPage = 1, !.pg.nbPages = 1,
              !.pg.seenIds = {}, !.pg.cluster = NoMarkers]

hasMore_always(pg) == TRUE

\* hasMore = computed(() => currentPage.value <= nbPages.value)
hasMore(pg) == pg.currentPage <= pg.nbPages

\* items.filter(c => { id = c?._id; if (!id) return false;
\*   if (seenIds.has(id)) return false; seenIds.add(id); return true })
isFresh_always(seen, c) == c._id # NoId

isFresh(seen, c) == c._id # NoId /\ c._id \notin seen

RECURSIVE filterFresh(_, _, _)
filterFresh(seen, items, fresh) ==
    IF items = <<>> THEN [seenIds |-> seen, fresh |-> fresh]
    ELSE LET c == Head(items)
         IN  IF isFresh(seen, c)
             THEN filterFresh(seen \cup {c._id}, Tail(items), Append(fresh, c))
             ELSE filterFresh(seen, Tail(items), fresh)

\* fresh.forEach(c => { if (isFinite(lat) && isFinite(lon)) cluster.addLayer(...) })
RECURSIVE addMarkers(_, _)
addMarkers(cluster, fresh) ==
    IF fresh = <<>> THEN cluster
    ELSE LET c == Head(fresh)
         IN  addMarkers(IF c.located
                        THEN [cluster EXCEPT ![c._id] = @ + 1]
                        ELSE cluster,
                        Tail(fresh))

RECURSIVE idsOf(_)
idsOf(items) ==
    IF items = <<>> THEN {}
    ELSE (IF Head(items)._id # NoId THEN {Head(items)._id} ELSE {})
         \cup idsOf(Tail(items))

RECURSIVE idSeq(_)
idSeq(items) ==
    IF items = <<>> THEN <<>> ELSE <<Head(items)._id>> \o idSeq(Tail(items))

\* the part of search() after `await api.get(...)` that both pages share:
\* cursor from data.page and data.nb_pages when defined, then the fresh items
\* (0 stands for an undefined page or nb_pages, -1 for a missing total);
\* pageSize, assigned there from data.page_size, is read nowhere and left out
accumulate(g, data) ==
    LET g1 == IF data.page # 0
              THEN [g EXCEPT !.pg.currentPage = data.page + 1] ELSE g
        g2 == IF data.nb_pages # 0
              THEN [g1 EXCEPT !.pg.nbPages = data.nb_pages] ELSE g1
        g3 == [g2 EXCEPT !.ev.total = data.total,
                         !.ev.listLen = IF data.hasItems
                                        THEN Len(data.items) ELSE NoCount]
    IN  IF data.hasItems
        THEN LET f == filterFresh(g3.pg.seenIds, data.items, <<>>)
             IN  [g3 EXCEPT !.pg.seenIds = f.seenIds,
                            !.pg.cluster = addMarkers(@, f.fresh),
                            !.pg.count = IF data.total # NoCount
                                         THEN data.total ELSE Len(data.items),
                            !.ev.ids = idsOf(data.items),
                            !.ev.fresh = idSeq(f.fresh)]
        ELSE [g3 EXCEPT !.pg.count = 0]

\* search(): try { ... await api.get(...) } finally { loading.value = false }
\* when the promise of api.get rejects
onSearchRejected_advances(g) ==
    [g EXCEPT !.pg.loading = FALSE, !.pg.fetch = NoFetch,
              !.pg.currentPage = @ + 1]

onSearchRejected(g) ==
    [g EXCEPT !.pg.loading = FALSE, !.pg.fetch = NoFetch]

\* ---- pages/caches/WithinBbox.vue ------------------------------------------------
\* hasBbox: bbox.value !== null && Array.isArray(bbox.value) && length === 4
hasBbox(pg) == Len(pg.bbox) = 4

bbox_isDisabled_never(pg) == FALSE

\* isDisabled: loading || !hasBbox || !hasMore (the `disabled` of the button)
bbox_isDisabled(pg) == pg.loading \/ ~hasBbox(pg) \/ ~hasMore(pg)

\* cornersToBounds(a, b): [[south, west], [north, east]]
cornersToBounds(a, b) ==
    <<IF a.lat <= b.lat THEN a.lat ELSE b.lat,
      IF a.lng <= b.lng THEN a.lng ELSE b.lng,
      IF a.lat >= b.lat THEN a.lat ELSE b.lat,
      IF a.lng >= b.lng THEN a.lng ELSE b.lng>>

\* drawPreviewRect(a, b): rect = L.rectangle(bounds) or rect.setBounds(bounds)
drawPreviewRect(g, a, b) == [g EXCEPT !.pg.rect = cornersToBounds(a, b)]

updateBboxFromCorners_unsorted(g, a, b) ==
    [g EXCEPT !.pg.bbox = <<a.lat, a.lng, b.lat, b.lng>>]

\* updateBboxFromCorners(a, b): bbox.value = [s, w, n, e]
updateBboxFromCorners(g, a, b) ==
    LET s == IF a.lat <= b.lat THEN a.lat ELSE b.lat
        n == IF a.lat >= b.lat THEN a.lat ELSE b.lat
        w == IF a.lng <= b.lng THEN a.lng ELSE b.lng
        e == IF a.lng >= b.lng THEN a.lng ELSE b.lng
    IN  [g EXCEPT !.pg.bbox = <<s, w, n, e>>]

\* startPick()
bbox_startPick(g) ==
    enablePick([g EXCEPT !.pg.cornerA = NullPt, !.pg.cornerB = NullPt,
                         !.pg.bbox = <<>>, !.pg.rect = <<>>,
                         !.pg.picking = "first"])

\* moveHandler = (e) => { drawPreviewRect(cornerA.value!, e.latlng);
\*                        updateBboxFromCorners(cornerA.value!, e.latlng) }
\* with cornerA.value null the first call throws a TypeError on a.lat
moveHandler(g, latlng) ==
    IF g.pg.cornerA.isNull THEN g
    ELSE updateBboxFromCorners(drawPreviewRect(g, g.pg.cornerA, latlng),
                               g.pg.cornerA, latlng)

bbox_onMapPick_skipsFirst(g, p) ==
    IF g.pg.picking = "first"
    THEN enablePick([resetAccumulator(g) EXCEPT
                        !.pg.cornerB = p, !.pg.picking = "idle"])
    ELSE g

\* onMapPick(p)
bbox_onMapPick(g, p) ==
    IF g.pg.picking = "first"
    THEN enablePick([resetAccumulator(g) EXCEPT
                        !.pg.cornerA = p,
                        !.pg.moveHandler = TRUE,
                        !.pg.listeners = @ + 1,
                        !.pg.picking = "second"])
    ELSE IF g.pg.picking = "second"
    THEN LET g1 == [g EXCEPT !.pg.cornerB = p]
             g2 == IF g1.pg.moveHandler
                   THEN [g1 EXCEPT !.pg.listeners = @ - 1,
                                   !.pg.moveHandler = FALSE]
                   ELSE g1
             g3 == updateBboxFromCorners(
                       drawPreviewRect(g2, g2.pg.cornerA, g2.pg.cornerB),
                       g2.pg.cornerA, g2.pg.cornerB)
         IN  [g3 EXCEPT !.pg.picking = "idle"]
    ELSE g

\* handlePick = (e) => { onPick(e.latlng); disable() }, where onPick emits
\* `pick` and the page's onMapPick runs inside the emit
bbox_handlePick(g, latlng) ==
    disable(bbox_onMapPick([g EXCEPT !.ev.picked = TRUE], latlng))

\* search(), up to the await: the region and the page of the request
bbox_search(g) ==
    IF ~hasBbox(g.pg) THEN g
    ELSE [g EXCEPT !.pg.loading = TRUE, !.pg.count = NoCount,
                   !.pg.fetch = [page |-> g.pg.currentPage],
                   !.ev.sent = TRUE]

\* search(), after the await, when api.get fulfils with `data`
bbox_onSearchFulfilled(g, data) ==
    [accumulate(g, data) EXCEPT !.pg.loading = FALSE, !.pg.fetch = NoFetch]

\* ---- radius page (second page of pages/caches/WithinBbox.vue) ---------------------
\* isDisabled: loading || !center || !radiusKm || !hasMore
radius_isDisabled(pg) ==
    pg.loading \/ pg.center.isNull \/ pg.radiusKm = 0 \/ ~hasMore(pg)

\* drawCircle(): if (!map || !center.value) return; circle = L.circle(...)
drawCircle(g) ==
    IF g.pg.center.isNull THEN g
    ELSE [g EXCEPT !.pg.circle = <<g.pg.center, g.pg.radiusKm * 1000>>]

\* setCenter(latlng)
setCenter(g, latlng) ==
    drawCircle([resetAccumulator(g) EXCEPT !.pg.center = latlng])

\* startPick(): inst.enablePick(); picking.value = true
radius_startPick(g) == [enablePick(g) EXCEPT !.pg.picking = TRUE]

\* onMapPick(p): picking.value = false; setCenter(L.latLng(p.lat, p.lng))
radius_onMapPick(g, p) == setCenter([g EXCEPT !.pg.picking = FALSE], p)

radius_handlePick(g, latlng) ==
    disable(radius_onMapPick([g EXCEPT !.ev.picked = TRUE], latlng))

onRadiusKm_clearsCenter(g) ==
    resetAccumulator([g EXCEPT !.pg.center = NullPt, !.pg.circle = <<>>])

\* watch(radiusKm, () => { reset; drawCircle() })
onRadiusKm(g) == drawCircle(resetAccumulator(g))

\* search(), up to the await
radius_search(g) ==
    IF g.pg.center.isNull THEN g
    ELSE [g EXCEPT !.pg.loading = TRUE, !.pg.count = NoCount,
                   !.pg.fetch = [page |-> g.pg.currentPage],
                   !.ev.sent = TRUE]

\* search(), after the await, when api.get fulfils with `data`
radius_onSearchFulfilled(g, data) ==
    [drawCircle(accumulate(g, data)) EXCEPT !.pg.loading = FALSE,
                                            !.pg.fetch = NoFetch]

\* ---- the backend's answers to a region query -------------------------------------
\* items of a response: each identifier with coordinates, an item without
\* _id, and an item whose coordinates are missing (isFinite fails)
Item(id, located) == [_id |-> id, located |-> located]

Items == {Item(id, TRUE) : id \in Ids \cup {NoId}} \cup {Item("c", FALSE)}

ItemLists == UNION {[1..n -> Items] : n \in 0..MaxItems}

\* { items[], total?, page?, nb_pages? } for a request of page `requested`:
\* the backend echoes the requested page and reports at least that many
\* pages; each of page, nb_pages and total may be missing, and so may items
Cursors(requested) ==
    [total : {NoCount, MaxItems * MaxNbPages},
     page : {0, requested},
     nb_pages : {0} \cup {n \in 1..MaxNbPages : n >= requested}]

Payload(hasItems, items, c) ==
    [hasItems |-> hasItems, items |-> items, total |-> c.total,
     page |-> c.page, nb_pages |-> c.nb_pages]

Payloads(requested) ==
    {Payload(TRUE, items, c) : items \in ItemLists, c \in Cursors(requested)}
    \cup {Payload(FALSE, <<>>, c) : c \in Cursors(requested)}

\* ---- specification of the search pages -----------------------------------------
authVars == <<auth, sessionStorage, localStorage, refreshPromise, requests,
              pcLogin, calls, issued, refreshCalls>>

\* a search page is open in a signed-in session
InitGeo ==
    /\ sessionStorage = [access_token |-> StoredToken, refresh_token |-> 0]
    /\ localStorage = [access_token |-> 0, refresh_token |-> StoredToken]
    /\ auth = [accessToken |-> StoredToken, refreshToken |-> StoredToken,
               user |-> NullUser, initialized |-> TRUE]
    /\ refreshPromise = 0
    /\ requests = [r \in Slots |-> FreeSlot]
    /\ pcLogin = "idle"
    /\ calls = [login |-> 0, page |-> 0]
    /\ issued = StoredToken
    /\ refreshCalls = 0
    /\ ev = GeoEv("mounted", NullPt)
    /\ \/ withinBbox = BboxMounted /\ withinRadius = Unmounted
       \/ withinBbox = Unmounted /\ withinRadius = RadiusMounted

BboxWorld(kind, p) == [pg |-> withinBbox, ev |-> GeoEv(kind, p)]

RadiusWorld(kind, p) == [pg |-> withinRadius, ev |-> GeoEv(kind, p)]

CommitBbox(g) ==
    /\ withinBbox' = g.pg
    /\ ev' = g.ev
    /\ UNCHANGED <<withinRadius, authVars>>

CommitRadius(g) ==
    /\ withinRadius' = g.pg
    /\ ev' = g.ev
    /\ UNCHANGED <<withinBbox, authVars>>

\* click on the "choose on the map" button
BboxStartPick ==
    /\ withinBbox.mounted
    /\ CommitBbox(bbox_startPick(BboxWorld("startPick", NullPt)))

\* click on the map at p: Leaflet fires `click`, which runs handlePick when
\* the picker is armed (map.once) and nothing otherwise; a first click adds
\* a preview handler to the map, which is explored up to MaxListeners handlers
BboxMapClick(p) ==
    /\ withinBbox.mounted
    /\ (withinBbox.picker.active /\ withinBbox.picking = "first")
       => withinBbox.listeners < MaxListeners
    /\ LET g == BboxWorld("click", p)
       IN  CommitBbox(IF withinBbox.picker.active
                      THEN bbox_handlePick(g, p) ELSE g)

\* the pointer moves to p over the map: Leaflet fires `mousemove`, which runs
\* every registered preview handler (they all do the same)
BboxMouseMove(p) ==
    /\ withinBbox.mounted
    /\ LET g == BboxWorld("mousemove", p)
       IN  CommitBbox(IF withinBbox.listeners > 0 THEN moveHandler(g, p) ELSE g)

\* click on the search button: a disabled button dispatches no click
BboxSearchClick ==
    /\ withinBbox.mounted
    /\ LET g == BboxWorld("searchClick", NullPt)
       IN  CommitBbox(IF bbox_isDisabled(withinBbox) THEN g ELSE bbox_search(g))

\* the promise of api.get fulfils
BboxSearchFulfilled ==
    /\ withinBbox.mounted
    /\ withinBbox.fetch # NoFetch
    /\ \E data \in Payloads(withinBbox.fetch.page) :
          CommitBbox(bbox_onSearchFulfilled(BboxWorld("searchFulfilled", NullPt),
                                            data))

\* the promise of api.get rejects (network error, HTTP error, failed refresh)
BboxSearchRejected ==
    /\ withinBbox.mounted
    /\ withinBbox.fetch # NoFetch
    /\ CommitBbox(onSearchRejected(BboxWorld("searchRejected", NullPt)))

RadiusStartPick ==
    /\ withinRadius.mounted
    /\ CommitRadius(radius_startPick(RadiusWorld("startPick", NullPt)))

RadiusMapClick(p) ==
    /\ withinRadius.mounted
    /\ LET g == RadiusWorld("click", p)
       IN  CommitRadius(IF withinRadius.picker.active
                        THEN radius_handlePick(g, p) ELSE g)

\* the user edits the radius input (v-model.number): the watcher runs
RadiusInput(km) ==
    /\ withinRadius.mounted
    /\ km # withinRadius.radiusKm
    /\ CommitRadius(onRadiusKm([RadiusWorld("radius", NullPt)
                                   EXCEPT !.pg.radiusKm = km]))

RadiusSearchClick ==
    /\ withinRadius.mounted
    /\ LET g == RadiusWorld("searchClick", NullPt)
       IN  CommitRadius(IF radius_isDisabled(withinRadius)
                        THEN g ELSE radius_search(g))

RadiusSearchFulfilled ==
    /\ withinRadius.mounted
    /\ withinRadius.fetch # NoFetch
    /\ \E data \in Payloads(withinRadius.fetch.page) :
          CommitRadius(radius_onSearchFulfilled(
                           RadiusWorld("searchFulfilled", NullPt), data))

RadiusSearchRejected ==
    /\ withinRadius.mounted
    /\ withinRadius.fetch # NoFetch
    /\ CommitRadius(onSearchRejected(RadiusWorld("searchRejected", NullPt)))

NextGeo ==
    \/ BboxStartPick
    \/ \E p \in Points : BboxMapClick(p)
    \/ \E p \in Points : BboxMouseMove(p)
    \/ BboxSearchClick
    \/ BboxSearchFulfilled
    \/ BboxSearchRejected
    \/ RadiusStartPick
    \/ \E p \in Points : RadiusMapClick(p)
    \/ \E km \in Radii : RadiusInput(km)
    \/ RadiusSearchClick
    \/ RadiusSearchFulfilled
    \/ RadiusSearchRejected

SpecGeo == InitGeo /\ [][NextGeo]_vars

\* the search page that is mounted
Page == IF withinBbox.mounted THEN withinBbox ELSE withinRadius

\* ---- paging through one region ---------------------------------------------------
\* a search page on which the user has just chosen a region: on the rectangle
\* page a first corner a was picked and the pointer moved to b, on the radius
\* page a center p was picked
InitPaging ==
    /\ sessionStorage = [access_token |-> StoredToken, refresh_token |-> 0]
    /\ localStorage = [access_token |-> 0, refresh_token |-> StoredToken]
    /\ auth = [accessToken |-> StoredToken, refreshToken |-> StoredToken,
               user |-> NullUser, initialized |-> TRUE]
    /\ refreshPromise = 0
    /\ requests = [r \in Slots |-> FreeSlot]
    /\ pcLogin = "idle"
    /\ calls = [login |-> 0, page |-> 0]
    /\ issued = StoredToken
    /\ refreshCalls = 0
    /\ ev = GeoEv("mounted", NullPt)
    /\ \/ \E a, b \in Points :
             LET g == [pg |-> BboxMounted, ev |-> GeoEv("mounted", NullPt)]
                 h == moveHandler(bbox_handlePick(bbox_startPick(g), a), b)
             IN  withinBbox = h.pg /\ withinRadius = Unmounted
       \/ \E p \in Points :
             LET g == [pg |-> RadiusMounted, ev |-> GeoEv("mounted", NullPt)]
                 h == radius_handlePick(radius_startPick(g), p)
             IN  withinRadius = h.pg /\ withinBbox = Unmounted

\* the answers of a backend that holds n pages for the region, echoes the
\* requested page and returns an item list
EchoPayloads(requested, n) ==
    {d \in Payloads(requested) :
        d.hasItems /\ d.page = requested /\ d.nb_pages = n}

\* the page count the backend reports for the region: any count on the first
\* answer, the same count on every later one
PageCounts(pg) ==
    IF pg.fetch.page = 1 THEN 1..MaxNbPages ELSE {pg.nbPages}

BboxSearchEchoed ==
    /\ withinBbox.mounted
    /\ withinBbox.fetch # NoFetch
    /\ \E n \in PageCounts(withinBbox) :
       \E data \in EchoPayloads(withinBbox.fetch.page, n) :
          CommitBbox(bbox_onSearchFulfilled(BboxWorld("searchFulfilled", NullPt),
                                            data))

RadiusSearchEchoed ==
    /\ withinRadius.mounted
    /\ withinRadius.fetch # NoFetch
    /\ \E n \in PageCounts(withinRadius) :
       \E data \in EchoPayloads(withinRadius.fetch.page, n) :
          CommitRadius(radius_onSearchFulfilled(
                           RadiusWorld("searchFulfilled", NullPt), data))

\* successive successful searches, with nothing else done on the page
NextPaging ==
    \/ BboxSearchClick
    \/ BboxSearchEchoed
    \/ RadiusSearchClick
    \/ RadiusSearchEchoed

SpecPaging == InitPaging /\ [][NextPaging]_vars

\* ---- properties -------------------------------------------------------------
inflight(r) == requests[r].state = "inflight"
awaiting(r) == requests[r].state = "awaiting"
RefreshesInFlight == {r \in Slots : inflight(r) /\ requests[r].url = REFRESH}
Waiters == {r \in Slots : awaiting(r)}
StoreEmpty ==
    /\ auth.accessToken = 0
    /\ auth.refreshToken = 0
    /\ auth.user = NullUser
    /\ sessionStorage.access_token = 0
    /\ localStorage.refresh_token = 0

\* C1: at every moment at most one POST /auth/refresh is in flight, and every
\* request that got a 401 while it is pending awaits that one refresh: no
\* macrotask starts more than one refresh, and none starts one while a
\* refresh is already awaited.
C1_SingleFlight ==
    /\ Cardinality(RefreshesInFlight) <= 1
    /\ ev.refreshStarted <= 1
    /\ \A w \in Waiters :
          /\ requests[w].awaits = refreshPromise
          /\ refreshPromise \in RefreshesInFlight
    /\ (refreshPromise # 0) <=> (RefreshesInFlight # {})

\* a 401 has just joined a refresh that others already await
C1_Witness ==
    /\ ev.kind = "response" /\ ev.status = 401 /\ ev.refreshStarted = 0
    /\ Cardinality(Waiters) >= 2
    /\ Cardinality(RefreshesInFlight) = 1

\* C3: a request that was already replayed (_retry set) and receives a 401
\* again is rejected to its caller with that 401, starts no refresh and is not
\* sent again; no call is ever sent more than twice.
C3_RetryOnce ==
    [][ /\ \A r \in Slots : requests'[r].sends <= 2
        /\ \A r \in Slots :
              (/\ inflight(r) /\ requests[r]._retry
               /\ ev'.kind = "response" /\ ev'.slot = r /\ ev'.status = 401)
              => /\ refreshCalls' = refreshCalls
                 /\ ev'.refreshStarted = 0
                 /\ ev'.sent \cap {r} = {}
                 /\ requests'[r].state = "free"
                 /\ [slot |-> r, url |-> requests[r].url, sends |-> 2, ok |-> FALSE,
                     err |-> [status |-> 401, url |-> requests[r].url]]
                       \in ev'.settled ]_vars

\* a replayed call has just been rejected with its second 401
C3_Witness ==
    /\ ev.kind = "response" /\ ev.status = 401
    /\ \E x \in ev.settled :
          x.slot = ev.slot /\ x.sends = 2 /\ ~x.ok /\ x.err.status = 401

\* C7: a not-yet-retried request that receives a 401 while the store holds no
\* refresh token starts no refresh and is not resubmitted: the store is logged
\* out and the 401 is rejected to the caller.
C7_NoRefreshToken ==
    [][ \A r \in Slots :
           (/\ inflight(r) /\ ~requests[r]._retry
            /\ auth.refreshToken = 0
            /\ ev'.kind = "response" /\ ev'.slot = r /\ ev'.status = 401)
           => /\ refreshCalls' = refreshCalls
              /\ ev'.refreshStarted = 0
              /\ ev'.sent \cap {r} = {}
              /\ requests'[r].state = "free"
              /\ ev'.logouts >= 1
              /\ StoreEmpty'
              /\ [slot |-> r, url |-> requests[r].url, sends |-> 1, ok |-> FALSE,
                  err |-> [status |-> 401, url |-> requests[r].url]]
                    \in ev'.settled ]_vars

\* a first 401 on a call other than the refresh call has just been rejected
\* to its caller, with one logout and without any refresh call ever made
C7_Witness ==
    /\ ev.kind = "response" /\ ev.status = 401 /\ ev.url # REFRESH
    /\ ev.refreshStarted = 0 /\ ev.logouts = 1 /\ refreshCalls = 0
    /\ \E x \in ev.settled : x.slot = ev.slot /\ x.sends = 1 /\ ~x.ok
    /\ StoreEmpty

\* C9: in every reachable state a non-empty user snapshot implies a non-empty
\* access token.
C9_Original == ~auth.user.isNull => auth.accessToken # 0

\* C10: logout() makes no network call and leaves the tokens and the user
\* snapshot empty in memory and absent from both storages; from then on, until
\* a login or refresh response stores tokens, the store stays without access
\* token and every call that is sent carries no bearer token.
C10_Logout ==
    [][ /\ ev'.kind = "logout"
           => /\ StoreEmpty'
              /\ ev'.sent = {} /\ ev'.refreshStarted = 0
              /\ requests' = requests /\ refreshCalls' = refreshCalls
        /\ (/\ auth.accessToken = 0 /\ sessionStorage.access_token = 0
            /\ ~(ev'.kind = "response" /\ ev'.status = 200
                 /\ ev'.url \in {LOGIN, REFRESH}))
           => /\ auth'.accessToken = 0 /\ sessionStorage'.access_token = 0
              /\ \A r \in ev'.sent :
                    requests[r].state = "free" => requests'[r].Authorization = 0
      ]_vars

\* logout() has just run in a session whose current access token, issued by
\* the backend, is carried by a call still in flight
C10_Witness ==
    /\ ev.kind = "logout" /\ ev.logouts = 1
    /\ StoreEmpty
    /\ issued > StoredToken
    /\ \E r \in Slots : inflight(r) /\ requests[r].Authorization = issued


\* a not-yet-retried request that receives a 401 while a refresh is pending
\* joins that refresh and starts no other one
C2_JoinsPending(needsToken) ==
    \A r \in Slots :
       (/\ inflight(r) /\ ~requests[r]._retry /\ requests[r].url # REFRESH
        /\ refreshPromise # 0
        /\ needsToken => auth.refreshToken # 0
        /\ ev'.kind = "response" /\ ev'.slot = r /\ ev'.status = 401)
       => /\ requests'[r].state = "awaiting"
          /\ requests'[r].awaits = refreshPromise
          /\ refreshPromise' = refreshPromise
          /\ refreshCalls' = refreshCalls

\* when the refresh succeeds, each request awaiting it is resubmitted, for the
\* first time, with the access token the refresh returned
C2_ReplayedOnSuccess ==
    \A w \in Slots :
       (/\ awaiting(w)
        /\ ev'.kind = "response" /\ ev'.slot = requests[w].awaits
        /\ ev'.status = 200)
       => /\ requests'[w].state = "inflight"
          /\ requests[w].sends = 1 /\ requests'[w].sends = 2
          /\ requests'[w].Authorization = auth'.accessToken
          /\ requests'[w].Authorization = issued' /\ issued' > issued

\* a request is resubmitted only when the refresh it awaits succeeds
C2_ReplayedOnlyThen ==
    \A r \in Slots :
       (requests[r].sends >= 1 /\ requests'[r].sends > requests[r].sends)
       => /\ awaiting(r)
          /\ ev'.kind = "response" /\ ev'.url = REFRESH /\ ev'.status = 200
          /\ ev'.slot = requests[r].awaits

\* C2 (as stated): every not-yet-retried request that receives a 401 while a
\* refresh is pending joins that refresh without starting another one; when
\* the refresh succeeds each request awaiting it is resubmitted exactly once
\* with the new access token; and a request is resubmitted only then.
C2_Original ==
    [][C2_JoinsPending(FALSE) /\ C2_ReplayedOnSuccess /\ C2_ReplayedOnlyThen]_vars

\* C2 (amended): the same, for the requests whose 401 arrives while the store
\* still holds a refresh token (no logout() since the refresh started).
C2_SharedRefresh ==
    [][C2_JoinsPending(TRUE) /\ C2_ReplayedOnSuccess /\ C2_ReplayedOnlyThen]_vars

\* a refresh has just succeeded and two or more requests were resubmitted,
\* each for the first time and with the token that refresh returned
C2_Witness ==
    /\ ev.kind = "response" /\ ev.url = REFRESH /\ ev.status = 200
    /\ refreshCalls = 1
    /\ Cardinality(ev.sent) >= 2
    /\ \A r \in ev.sent :
          inflight(r) /\ requests[r].sends = 2 /\ requests[r].Authorization = issued

\* the last macrotask was a 401 response to the refresh call
RefreshGot401 == ev.kind = "response" /\ ev.url = REFRESH /\ ev.status = 401

\* C4 (as stated): a 401 on the refresh call starts no other refresh and
\* results in exactly one logout() of the credential store.
C4_Original ==
    RefreshGot401 => ev.refreshStarted = 0 /\ ev.logouts = 1

\* C4 (amended): a 401 on the refresh call starts no other refresh and leaves
\* the credential store logged out; logout() runs once for the refresh call
\* itself and once more for each request that was awaiting the refresh.
C4_RefreshRejected ==
    RefreshGot401
    => /\ ev.refreshStarted = 0
       /\ refreshPromise = 0 /\ RefreshesInFlight = {}
       /\ \E x \in ev.settled : x.slot = ev.slot /\ ~x.ok
       /\ ev.logouts = 1 + Cardinality({x \in ev.settled : x.url # REFRESH})
       /\ StoreEmpty

\* the refresh call has just received a 401 while two requests awaited it
C4_Witness ==
    /\ RefreshGot401
    /\ Cardinality({x \in ev.settled : x.url # REFRESH}) = 2
    /\ ev.logouts = 3

\* C5: when the shared refresh fails, every request that was awaiting it logs
\* the user out, is not resubmitted, and is rejected to its caller with the
\* error of the original request (the 401 it received).
C5_Original ==
    (ev.kind = "response" /\ ev.url = REFRESH /\ ev.status # 200)
    => /\ Waiters = {}
       /\ ev.logouts >= Cardinality({x \in ev.settled : x.url # REFRESH})
       /\ StoreEmpty
       /\ \A x \in ev.settled :
             x.url # REFRESH
             => /\ ~x.ok
                /\ x.slot \notin ev.sent
                /\ x.err = [status |-> 401, url |-> x.url]

\* the POST of login() has just been rejected to login(), which rejects
LoginRejected ==
    \E x \in ev.settled : x.slot = LoginSlot /\ x.url = LOGIN /\ ~x.ok

\* C6: whenever login() rejects, the credential store is left unauthenticated:
\* the access token is empty after the rejection.
C6_Original == LoginRejected => auth.accessToken = 0

\* init() has run and every call of the page load has settled
PageLoadDone ==
    /\ auth.initialized
    /\ \A r \in Slots : requests[r].state = "free"

\* C8: the page load makes no second refresh call, every call that settles was
\* replayed exactly once and answered, and it ends with exactly one refresh
\* call made and the user snapshot populated.
C8_Original ==
    /\ refreshCalls <= 1
    /\ \A x \in ev.settled : x.url # REFRESH => x.ok /\ x.sends = 2
    /\ PageLoadDone
       => /\ refreshCalls = 1
          /\ auth.user.base /\ auth.user.location
          /\ auth.accessToken > StoredToken

\* ---- properties of the search pages --------------------------------------------
Max(S) == CHOOSE x \in S : \A y \in S : x >= y

\* the axis-aligned rectangle spanned by two points, as [south, west, north, east]
RegionOf(a, b) ==
    <<Min({a.lat, b.lat}), Min({a.lng, b.lng}),
      Max({a.lat, b.lat}), Max({a.lng, b.lng})>>

AccumulatorReset(pg) ==
    /\ pg.currentPage = 1 /\ pg.nbPages = 1
    /\ pg.seenIds = {} /\ pg.cluster = NoMarkers

\* C11: on the bounding-box page startPick leaves the session awaiting the first
\* point; a map click in that mode captures corner A and leaves the session
\* awaiting the second point; a map click in that mode is delivered as a pick,
\* captures corner B, commits the region spanned by A and B and returns the
\* session to idle.
C11_Original ==
    [][ withinBbox.mounted
        => /\ ev'.kind = "startPick" => withinBbox'.picking = "first"
           /\ (ev'.kind = "click" /\ withinBbox.picking = "first")
              => /\ ev'.picked
                 /\ withinBbox'.cornerA = ev'.p
                 /\ withinBbox'.picking = "second"
           /\ (ev'.kind = "click" /\ withinBbox.picking = "second")
              => /\ ev'.picked
                 /\ withinBbox'.cornerB = ev'.p
                 /\ withinBbox'.bbox = RegionOf(withinBbox.cornerA, ev'.p)
                 /\ withinBbox'.picking = "idle" ]_vars

\* C12: while the bounding-box session awaits the second point, a mousemove
\* over the map leaves the region used by search (bbox), both corners and the
\* pagination state (page, total pages, seen-set) unchanged.
C12_Original ==
    [][ (withinBbox.mounted /\ withinBbox.picking = "second"
         /\ ev'.kind = "mousemove")
        => /\ withinBbox'.bbox = withinBbox.bbox
           /\ withinBbox'.cornerA = withinBbox.cornerA
           /\ withinBbox'.cornerB = withinBbox.cornerB
           /\ withinBbox'.currentPage = withinBbox.currentPage
           /\ withinBbox'.nbPages = withinBbox.nbPages
           /\ withinBbox'.seenIds = withinBbox.seenIds ]_vars

\* a region is committed: a center is picked or the radius changed on the
\* radius page, or the region of the bounding-box page is set
RegionCommitted ==
    \/ /\ withinRadius.mounted
       /\ withinRadius'.center # withinRadius.center
          \/ withinRadius'.radiusKm # withinRadius.radiusKm
    \/ /\ withinBbox.mounted
       /\ withinBbox'.bbox # withinBbox.bbox
       /\ withinBbox'.bbox # <<>>

\* C13: whenever a new region is committed (a new center picked, the radius
\* changed, or the region of the bounding-box page set from its two corners),
\* the accumulator has, at that moment, page = 1, totalPages = 1 and an empty
\* seen-set.
C13_Original ==
    [][ RegionCommitted
        => /\ Page'.currentPage = 1 /\ Page'.nbPages = 1
           /\ Page'.seenIds = {} ]_vars

\* C14: startPick leaves no region (no bbox, no center) and no accumulated
\* results: page 1, one page, empty seen-set, no marker, on both pages.
C14_Original ==
    [][ ev'.kind = "startPick"
        => /\ withinBbox.mounted => withinBbox'.bbox = <<>>
           /\ withinRadius.mounted => withinRadius'.center = NullPt
           /\ AccumulatorReset(Page') ]_vars

\* the search button of the mounted page is disabled
SearchDisabled ==
    IF withinBbox.mounted
    THEN withinBbox.loading \/ withinBbox.bbox = <<>>
         \/ withinBbox.currentPage > withinBbox.nbPages
    ELSE withinRadius.loading \/ withinRadius.center = NullPt
         \/ withinRadius.currentPage > withinRadius.nbPages

\* C15: a search requested while a fetch is in progress, while no region is
\* defined, or while page > totalPages, issues no network call and leaves
\* page, totalPages, the seen-set and the rendered markers unchanged.
C15_SearchDisabled ==
    [][ (ev'.kind = "searchClick" /\ SearchDisabled)
        => /\ ~ev'.sent
           /\ Page'.fetch = Page.fetch
           /\ Page'.currentPage = Page.currentPage
           /\ Page'.nbPages = Page.nbPages
           /\ Page'.seenIds = Page.seenIds
           /\ Page'.cluster = Page.cluster ]_vars

\* a search was requested at the end of the list, on a defined region and
\* with no fetch in progress, and nothing was sent
C15_Witness ==
    /\ ev.kind = "searchClick" /\ ~ev.sent
    /\ ~Page.loading
    /\ Page.currentPage > Page.nbPages
    /\ Page.seenIds # {}
    /\ withinBbox.mounted => withinBbox.bbox # <<>>
    /\ withinRadius.mounted => withinRadius.center # NullPt

\* C16: in every reachable state of a search page the cursor is at most one
\* past the last known page count: page <= totalPages + 1.
C16_Original == Page.currentPage <= Page.nbPages + 1

\* the identifiers of a sequence
Range(s) == {s[i] : i \in 1..Len(s)}

\* C17: a response forwards for rendering exactly the identifiers it returns
\* that are not in the seen-set, each once, and the seen-set grows by exactly
\* those; a marker is added only for a forwarded identifier, no identifier
\* ever has more than one marker, and the seen-set shrinks only when it is
\* emptied together with the markers.
C17_Dedup ==
    [][ /\ ev'.kind = "searchFulfilled"
           => /\ Range(ev'.fresh) = ev'.ids \ Page.seenIds
              /\ Len(ev'.fresh) = Cardinality(Range(ev'.fresh))
              /\ Page'.seenIds = Page.seenIds \cup ev'.ids
              /\ \A i \in Ids :
                    /\ Page'.cluster[i] >= Page.cluster[i]
                    /\ Page'.cluster[i] > Page.cluster[i] => i \in Range(ev'.fresh)
        /\ \/ Page.seenIds \subseteq Page'.seenIds
           \/ Page'.seenIds = {} /\ Page'.cluster = NoMarkers
        /\ \A i \in Ids :
              /\ Page'.cluster[i] <= 1
              /\ Page'.cluster[i] = 1 => i \in Page'.seenIds ]_vars

\* the second page {b, c} of a region arrived after {a, b}: only c was
\* forwarded and a, b, c have one marker each
C17_Witness ==
    /\ ev.kind = "searchFulfilled"
    /\ ev.ids = {"b", "c"} /\ ev.fresh = <<"c">>
    /\ Page.seenIds = {"a", "b", "c"}
    /\ \A i \in Ids : Page.cluster[i] = 1
    /\ Page.currentPage = 3 /\ Page.nbPages = 2

\* C18: when the fetch of a search fails, page, totalPages, the seen-set and
\* the markers are left as they were, the fetch-in-progress flag is cleared
\* and no other fetch is issued.
C18_FetchFailed ==
    [][ ev'.kind = "searchRejected"
        => /\ Page.loading /\ ~Page'.loading
           /\ Page'.currentPage = Page.currentPage
           /\ Page'.nbPages = Page.nbPages
           /\ Page'.seenIds = Page.seenIds
           /\ Page'.cluster = Page.cluster
           /\ ~ev'.sent /\ Page'.fetch = NoFetch ]_vars

\* the fetch of the second page of a region has just failed
C18_Witness ==
    /\ ev.kind = "searchRejected"
    /\ ~Page.loading /\ Page.fetch = NoFetch
    /\ Page.currentPage = 2 /\ Page.nbPages = 2
    /\ Page.seenIds # {}

C20_TokenStorage ==
    /\ localStorage.access_token = 0
    /\ sessionStorage.refresh_token = 0
    /\ localStorage.refresh_token = auth.refreshToken
    /\ auth.accessToken # 0 => sessionStorage.access_token = auth.accessToken

\* a refresh that followed a logout-free session has just stored a new token
\* pair: the access token in session storage, the refresh token in local
\* storage
C20_Witness ==
    /\ ev.kind = "response" /\ ev.url = REFRESH /\ ev.status = 200
    /\ auth.initialized
    /\ sessionStorage.access_token = issued /\ issued > StoredToken
    /\ localStorage.refresh_token = issued
    /\ auth.accessToken = issued /\ auth.refreshToken = issued

\* ---- properties of init(), login() and the pipeline, continued ------------------
\* the calls init() makes
InitSlots == {InitProfileSlot, InitLocationSlot}

\* C21: init() takes effect at most once: a call made after the first one sends
\* nothing and changes neither the store, the storages nor any call; the first
\* call sends the profile and the location call exactly when session storage
\* holds an access token, and nothing otherwise.
C21_InitOnce ==
    [][ ev'.kind = "init"
        => /\ auth.initialized
              => /\ ev'.sent = {} /\ ev'.refreshStarted = 0 /\ ev'.logouts = 0
                 /\ auth' = auth
                 /\ sessionStorage' = sessionStorage
                 /\ localStorage' = localStorage
                 /\ requests' = requests
                 /\ refreshPromise' = refreshPromise
           /\ (~auth.initialized /\ sessionStorage.access_token = 0)
              => /\ ev'.sent = {} /\ requests' = requests
                 /\ auth'.accessToken = 0 /\ auth'.initialized
           /\ (~auth.initialized /\ sessionStorage.access_token # 0)
              => /\ ev'.sent = InitSlots
                 /\ auth'.accessToken = sessionStorage.access_token
                 /\ auth'.initialized
      ]_vars

\* init() has just been called again while the calls of its first run are
\* still in flight: the store holds a token and nothing was sent
C21_Witness ==
    /\ ev.kind = "init" /\ ev.sent = {}
    /\ auth.initialized /\ auth.accessToken # 0
    /\ \A r \in InitSlots : requests[r].state = "inflight"

\* the profile and location calls of login() and init()
EnrichSlots == {LoginProfileSlot, LoginLocationSlot} \cup InitSlots

\* what login() and init() do with the outcome x of a profile or location
\* call: a failure leaves tokens, storages and user snapshot as they were and
\* login() goes on to the location call or returns; a success merges its
\* result into the user snapshot
C22_Tolerated(x) ==
    /\ ~x.ok
       => /\ auth'.accessToken = auth.accessToken
          /\ auth'.refreshToken = auth.refreshToken
          /\ sessionStorage' = sessionStorage
          /\ localStorage' = localStorage
          /\ auth'.user = auth.user
          /\ x.slot = LoginProfileSlot
             => pcLogin' = "location" /\ LoginLocationSlot \in ev'.sent
          /\ x.slot = LoginLocationSlot => pcLogin' = "idle"
          /\ \A r \in InitSlots \ {x.slot} : requests'[r] = requests[r]
    /\ (x.ok /\ x.url = PROFILE) => ~auth'.user.isNull /\ auth'.user.base
    /\ (x.ok /\ x.url = LOCATION) => ~auth'.user.isNull /\ auth'.user.location

\* C22 (as stated): a failure of the profile or of the location call, after
\* login or during init, neither makes login()/init() fail nor rolls back the
\* stored tokens, and the result of the other call is still merged.
C22_Original ==
    [][ \A x \in ev'.settled : x.slot \in EnrichSlots => C22_Tolerated(x) ]_vars

\* C22 (amended): the same for every failure that reaches login()/init()
\* without the pipeline having logged out in the same step, i.e. every failure
\* but a 401 that could not be recovered.
C22_FailureTolerated ==
    [][ \A x \in ev'.settled :
           (x.slot \in EnrichSlots /\ ev'.logouts = 0) => C22_Tolerated(x) ]_vars

\* the profile call of login() has just failed with a 500: the tokens of the
\* login are still stored and the location call has been sent
C22_Witness ==
    /\ ev.kind = "response" /\ ev.slot = LoginProfileSlot /\ ev.status = 500
    /\ \E x \in ev.settled : x.slot = LoginProfileSlot /\ ~x.ok
    /\ LoginLocationSlot \in ev.sent /\ pcLogin = "location"
    /\ auth.accessToken # 0 /\ sessionStorage.access_token = auth.accessToken

\* what the pipeline does with a response to the call in slot r whose status
\* is not 401: it starts no refresh and runs no logout; a failure is rejected
\* to the caller as received, the call is not sent again and the store and
\* the storages stay as they were
C24_PassesThrough(r) ==
    /\ ev'.refreshStarted = 0 /\ refreshCalls' = refreshCalls
    /\ ev'.logouts = 0
    /\ ev'.status # 200
       => /\ auth' = auth
          /\ sessionStorage' = sessionStorage
          /\ localStorage' = localStorage
          /\ r \notin ev'.sent
          /\ [slot |-> r, url |-> requests[r].url, sends |-> requests[r].sends,
              ok |-> FALSE,
              err |-> [status |-> ev'.status, url |-> requests[r].url]]
                \in ev'.settled
          /\ requests'[r].state = "free"

Idle ==
    IF withinBbox.mounted THEN withinBbox.picking = "idle"
    ELSE ~withinRadius.picking

\* the corners or the center the user chose, and the region derived from them
Chosen ==
    IF withinBbox.mounted
    THEN <<withinBbox.cornerA, withinBbox.cornerB, withinBbox.bbox>>
    ELSE <<withinRadius.center>>

C25_RadiusKeepsCenter ==
    [][ (withinRadius.mounted /\ ev'.kind = "radius")
        => /\ withinRadius'.radiusKm # withinRadius.radiusKm
           /\ withinRadius'.center = withinRadius.center
           /\ withinRadius'.picking = withinRadius.picking
           /\ withinRadius'.picker = withinRadius.picker
           /\ ~withinRadius.center.isNull
              => withinRadius'.circle =
                    <<withinRadius.center, withinRadius'.radiusKm * 1000>>
           /\ (/\ ~withinRadius.center.isNull
               /\ withinRadius'.radiusKm # 0
               /\ ~withinRadius.loading)
              => ~radius_isDisabled(withinRadius')
      ]_vars

\* the radius has just been changed to 20 km on a page whose center was picked
\* earlier: the page is idle, the circle has the new radius and the search
\* button is enabled
C25_Witness ==
    /\ withinRadius.mounted
    /\ ev.kind = "radius" /\ withinRadius.radiusKm = 20
    /\ ~withinRadius.center.isNull
    /\ ~withinRadius.picking /\ ~withinRadius.picker.active
    /\ withinRadius.circle = <<withinRadius.center, 20000>>
    /\ ~radius_isDisabled(withinRadius)

\* utils: coalesceTotal(items, total) = typeof total === 'number' ? total
\*        : (Array.isArray(items) ? items.length : 0)
\* listLen is the length of items, NoCount when items is not an array
coalesceTotal(listLen, total) ==
    IF total # NoCount THEN total
    ELSE IF listLen # NoCount THEN listLen ELSE 0

\* C26: after a response the displayed total equals the total the server
\* reported when it is a number, otherwise the length of the returned item
\* list, otherwise zero.
C26_Original ==
    ev.kind = "searchFulfilled" => Page.count = coalesceTotal(ev.listLen, ev.total)

\* the fetch in flight was issued before the accumulator was last reset: it
\* asked for a page other than the cursor's (the cursor moves only on a
\* response, when no fetch is left in flight, and on a reset)
StaleFetch == Page.fetch # NoFetch /\ Page.fetch.page # Page.currentPage

\* C27: a response that arrives after the accumulator was reset does not touch
\* the new window: the cursor stays at page 1 of 1 and no identifier and no
\* marker is added.
C27_Original ==
    [][ (StaleFetch /\ ev'.kind = "searchFulfilled")
        => /\ Page'.currentPage = 1 /\ Page'.nbPages = 1
           /\ Page'.seenIds = Page.seenIds
           /\ Page'.cluster = Page.cluster ]_vars

\* the store and both storages hold no token
NoTokens ==
    /\ auth.accessToken = 0
    /\ auth.refreshToken = 0
    /\ sessionStorage.access_token = 0
    /\ localStorage.refresh_token = 0

\* C28: once logout() has emptied the store, it holds no token until the next
\* login stores one: no other step, in particular no response to a refresh
\* call that was in flight at logout, repopulates the tokens.
C28_Original ==
    [][ (/\ NoTokens
         /\ ~(ev'.kind = "response" /\ ev'.url = LOGIN /\ ev'.status = 200))
        => NoTokens' ]_vars

\* C29: at most one mousemove preview handler is registered on the map, and
\* none while the page is idle; a movement of the pointer changes no region
\* once the second corner has committed it, and never runs a preview while
\* corner A is unset.
C29_Original ==
    /\ withinBbox.mounted
       => /\ withinBbox.listeners <= 1
          /\ withinBbox.picking = "idle" => withinBbox.listeners = 0
          /\ (ev.kind = "mousemove" /\ withinBbox.listeners > 0)
             => ~withinBbox.cornerA.isNull

\* identifiers every returned item of which carries coordinates
AlwaysLocated == {i \in Ids : \A c \in Items : c._id = i => c.located}

\* the cursor while paging through one region: a search asks for the page
\* after the last one received, never for a page beyond the page count, and
\* an answer moves the cursor one page on
C30_Cursor ==
    /\ ev'.sent => /\ Page'.fetch.page = Page.currentPage
                   /\ Page.currentPage <= Page.nbPages
    /\ ev'.kind = "searchFulfilled"
       => /\ Page'.currentPage = Page.fetch.page + 1
          /\ Page.fetch.page = Page.currentPage
          /\ Page'.currentPage <= Page'.nbPages + 1
          /\ Page.currentPage > 1 => Page'.nbPages = Page.nbPages
          /\ ev'.ids \subseteq Page'.seenIds
    /\ (ev'.kind = "searchClick" /\ ~ev'.sent)
       => Page.loading \/ Page.currentPage = Page.nbPages + 1

\* C30 (as stated): for a fixed region of N pages, with a backend that echoes
\* the requested page, successive successful searches request the pages 1..N
\* in order and then none, and every identifier returned on any page has
\* been rendered exactly once.
C30_Original ==
    [][ /\ C30_Cursor
        /\ \A i \in Page'.seenIds : Page'.cluster[i] = 1 ]_vars

\* C30 (amended): the same, with exactly one marker for every identifier
\* whose items all carry coordinates and at most one marker for any other.
C30_Paging ==
    [][ /\ C30_Cursor
        /\ \A i \in Page'.seenIds \cap AlwaysLocated : Page'.cluster[i] = 1
        /\ \A i \in Ids : /\ Page'.cluster[i] <= 1
                          /\ Page'.cluster[i] = 1 => i \in Page'.seenIds ]_vars

\* the last of two pages has just been received: page 3 of 2, the button is
\* disabled, and two identifiers, one of them returned on both pages, have
\* one marker each
C30_Witness ==
    /\ ev.kind = "searchFulfilled"
    /\ Page.nbPages = 2 /\ Page.currentPage = 3
    /\ SearchDisabled
    /\ Page.seenIds = {"a", "b"}
    /\ Page.cluster["a"] = 1 /\ Page.cluster["b"] = 1
    /\ ev.ids = {"a", "b"} /\ Len(ev.fresh) = 1

====
